---- MODULE Spec2Model ----
(***************************************************************************)
(* Model of crates/libcgroups/src/systemd/cpuset.rs: the conversion of a   *)
(* cpu / memory-node list ("0,2-4,7") into the byte mask systemd expects   *)
(* (to_bitmask) and the controller that writes the masks into the property *)
(* map of a systemd unit (CpuSet::apply).                                  *)
(*                                                                         *)
(* A &str is a sequence of one-character strings.  A FixedBitSet is a      *)
(* record of its length in bits and its storage blocks; a block (u32) is   *)
(* the set of the bit positions 0..31 that are 1, so that no number above  *)
(* 255 is ever computed.  A Rust panic (a failed assert!) is the outcome   *)
(* "Panic", distinct from a returned Err.                                  *)
(***************************************************************************)
EXTENDS Integers, Sequences, FiniteSets

VARIABLES range, result, properties, call

vars == <<range, result, properties, call>>

\* ------------------------------------------------------------------ bounds

\* Largest index of the one-token inputs "i" and "a-b".
MaxIndex == 33

\* Largest number of comma-separated tokens of the mixed inputs.
MaxTokens == 2

\* ------------------------------------------------------- library: str

Digits == {"0", "1", "2", "3", "4", "5", "6", "7", "8", "9"}

\* char::to_digit(10) of a digit.
DigitVal(c) ==
  CASE c = "0" -> 0 [] c = "1" -> 1 [] c = "2" -> 2 [] c = "3" -> 3
    [] c = "4" -> 4 [] c = "5" -> 5 [] c = "6" -> 6 [] c = "7" -> 7
    [] c = "8" -> 8 [] c = "9" -> 9

\* str::split(c): the pieces between the occurrences of c; "" gives [""].
RECURSIVE split(_, _)
split(s, c) ==
  IF \A i \in 1..Len(s) : s[i] # c
  THEN <<s>>
  ELSE LET i == CHOOSE k \in 1..Len(s) :
                  s[k] = c /\ \A j \in 1..(k - 1) : s[j] # c
       IN  <<SubSeq(s, 1, i - 1)>> \o split(SubSeq(s, i + 1, Len(s)), c)

\* str::split_terminator(c): as split, without a trailing empty piece.
split_terminator(s, c) ==
  LET parts == split(s, c)
  IN  IF parts[Len(parts)] = <<>> THEN SubSeq(parts, 1, Len(parts) - 1)
      ELSE parts

\* str::trim(): without leading and trailing whitespace.
RECURSIVE trim(_)
trim(s) ==
  IF s = <<>> THEN s
  ELSE IF s[1] = " " THEN trim(Tail(s))
  ELSE IF s[Len(s)] = " " THEN trim(SubSeq(s, 1, Len(s) - 1))
  ELSE s

\* The value of a sequence of decimal digits.
RECURSIVE DecimalValue(_)
DecimalValue(s) ==
  IF s = <<>> THEN 0
  ELSE 10 * DecimalValue(SubSeq(s, 1, Len(s) - 1)) + DigitVal(s[Len(s)])

\* str::parse::<usize>(): an optional '+', then one or more decimal digits;
\* anything else (the empty string, a lone sign, '-', a blank, a letter) is
\* a ParseIntError.
parse(s) ==
  LET digits == IF s # <<>> /\ s[1] = "+" THEN Tail(s) ELSE s
  IN  IF digits # <<>> /\ \A i \in 1..Len(digits) : digits[i] \in Digits
      THEN [ok |-> TRUE, val |-> DecimalValue(digits)]
      ELSE [ok |-> FALSE, val |-> 0]

\* ------------------------------------------------ library: FixedBitSet

\* Bits of one storage block (u32).
BITS == 32

\* Blocks needed for a length in bits: div_rem(bits, BITS), rounded up.
BlocksFor(bits) == (bits \div BITS) + (IF bits % BITS > 0 THEN 1 ELSE 0)

\* Vec::resize(n, 0) of the blocks: only ever called to grow.
resize(data, n) ==
  [b \in 1..n |-> IF b <= Len(data) THEN data[b] ELSE {}]

\* FixedBitSet::with_capacity(bits): all bits 0.
with_capacity(bits) ==
  [length |-> bits, data |-> resize(<<>>, BlocksFor(bits))]

\* FixedBitSet::grow(bits): no effect unless bits > len().
grow(bitset, bits) ==
  IF bits > bitset.length
  THEN [length |-> bits, data |-> resize(bitset.data, BlocksFor(bits))]
  ELSE bitset

\* The blocks with bit `bit` set to 1.
put(data, bit) ==
  [data EXCEPT ![(bit \div BITS) + 1] = @ \cup {bit % BITS}]

\* FixedBitSet::set(bit, true): assert!(bit < self.length), then the write.
set(bitset, bit) ==
  IF bit < bitset.length
  THEN [panic |-> FALSE, bitset |-> [bitset EXCEPT !.data = put(@, bit)]]
  ELSE [panic |-> TRUE, bitset |-> bitset]

\* FixedBitSet::set_range(start..end, true):
\* assert!(start <= end && end <= self.length), then the writes.
set_range(bitset, start, end) ==
  IF start <= end /\ end <= bitset.length
  THEN [panic |-> FALSE,
        bitset |-> [bitset EXCEPT !.data =
                      [b \in 1..Len(@) |->
                         @[b] \cup {k \in 0..(BITS - 1) :
                                      (b - 1) * BITS + k \in start..(end - 1)}]]]
  ELSE [panic |-> TRUE, bitset |-> bitset]

\* Byte j (0 = least significant) of a block, as a number 0..255.
RECURSIVE ByteValue(_, _, _)
ByteValue(block, j, t) ==
  IF t > 7 THEN 0
  ELSE (IF 8 * j + t \in block THEN 2 ^ t ELSE 0) + ByteValue(block, j, t + 1)

\* u32::to_be_bytes(): the four bytes of a block, most significant first.
to_be_bytes(block) ==
  <<ByteValue(block, 3, 0), ByteValue(block, 2, 0),
    ByteValue(block, 1, 0), ByteValue(block, 0, 0)>>

\* Iterator::flat_map(|b| b.to_be_bytes()) over as_slice(): the bytes of
\* the blocks in storage order, block 0 (bits 0..31) first.
RECURSIVE flat_map_be(_)
flat_map_be(data) ==
  IF data = <<>> THEN <<>>
  ELSE to_be_bytes(Head(data)) \o flat_map_be(Tail(data))

\* Iterator::skip_while(|b| *b == 0): without the leading zero bytes.
RECURSIVE skip_while_zero(_)
skip_while_zero(bytes) ==
  IF bytes # <<>> /\ bytes[1] = 0 THEN skip_while_zero(Tail(bytes))
  ELSE bytes

\* ------------------------------------------------------------ to_bitmask

\* The body of the loop for one trimmed, non-empty token: the bit set
\* after it, or the error or panic that ends the call.
token_step(bitset, cpu_set) ==
  LET parts == split(cpu_set, "-")
      cpus == [i \in 1..Len(parts) |-> trim(parts[i])]
  IN
  IF Len(cpus) = 1
  THEN LET cpu_index == parse(cpus[1])
           grown == IF cpu_index.val >= bitset.length
                    THEN grow(bitset, bitset.length + 8)
                    ELSE bitset
           done == set(grown, cpu_index.val)
       IN  IF ~cpu_index.ok
           THEN [status |-> "Err", bitset |-> bitset]
           ELSE IF done.panic
           THEN [status |-> "Panic", bitset |-> grown]
           ELSE [status |-> "Ok", bitset |-> done.bitset]
  ELSE LET start_index == parse(cpus[1])
           end_index == parse(cpus[2])
           grown == IF end_index.val >= bitset.length
                    THEN grow(bitset, end_index.val + 1)
                    ELSE bitset
           done == set_range(grown, start_index.val, end_index.val + 1)
       IN  IF ~start_index.ok \/ ~end_index.ok
           THEN [status |-> "Err", bitset |-> bitset]
           ELSE IF start_index.val > end_index.val
           THEN [status |-> "Err", bitset |-> bitset]
           ELSE IF done.panic
           THEN [status |-> "Panic", bitset |-> grown]
           ELSE [status |-> "Ok", bitset |-> done.bitset]

\* The for loop over the pieces from piece i on: an empty piece is skipped,
\* an error or a panic ends the loop.
RECURSIVE token_loop(_, _, _)
token_loop(bitset, pieces, i) ==
  IF i > Len(pieces) THEN [status |-> "Ok", bitset |-> bitset]
  ELSE LET cpu_set == trim(pieces[i])
       IN  IF cpu_set = <<>> THEN token_loop(bitset, pieces, i + 1)
           ELSE LET r == token_step(bitset, cpu_set)
                IN  IF r.status = "Ok"
                    THEN token_loop(r.bitset, pieces, i + 1)
                    ELSE r

\* Mutant of mask_bytes: the skip_while is forgotten.
mask_bytes_unstripped(bitset) == flat_map_be(bitset.data)

\* The bytes returned for the final bit set.
mask_bytes(bitset) == skip_while_zero(flat_map_be(bitset.data))

\* to_bitmask(range): Ok(bytes), Err, or a panic.
to_bitmask(s) ==
  LET r == token_loop(with_capacity(8), split_terminator(s, ","), 1)
  IN  IF r.status = "Ok"
      THEN [status |-> "Ok", mask |-> mask_bytes(r.bitset)]
      ELSE [status |-> r.status, mask |-> <<>>]

\* ---------------------------------------------------------------- inputs

\* The decimal digits of n, as a string.
RECURSIVE Str(_)
Str(n) ==
  IF n < 10 THEN <<CHOOSE c \in Digits : DigitVal(c) = n>>
  ELSE Str(n \div 10) \o <<CHOOSE c \in Digits : DigitVal(c) = n % 10>>

\* The token "a-b".
Rng(a, b) == Str(a) \o <<"-">> \o Str(b)

\* The tokens joined by commas.
RECURSIVE Join(_)
Join(toks) ==
  IF toks = <<>> THEN <<>>
  ELSE IF Len(toks) = 1 THEN toks[1]
  ELSE toks[1] \o <<",">> \o Join(Tail(toks))

\* The one-token inputs "i" and "a-b", every index up to MaxIndex.
SingleInputs == {Str(i) : i \in 0..MaxIndex}
RangeInputs == {Rng(a, b) : a \in 0..MaxIndex, b \in 0..MaxIndex}

\* Tokens of the mixed inputs: indices on both sides of the 8, 16 and 32
\* bit boundaries, blanks, empty tokens, and malformed tokens.
GoodTokens ==
  {Str(0), Str(2), Str(9), Str(16), Str(20), Str(30), Str(32),
   Rng(0, 2), Rng(2, 4), Rng(0, 29), Rng(0, 30), Rng(31, 32)}
BlankTokens ==
  {<<>>, <<" ">>, <<" ", "2", "-", " ", "4">>, <<"7", " ", " ", " ">>,
   <<"0", " ", "-", "2", " ">>}
BadTokens ==
  {<<"x">>, <<"2", "-", "0">>, <<"2", "-">>, <<"-", "2">>,
   <<"1", "-", "2", "-", "3">>, <<"1", "-", "2", "-", "x">>,
   <<"+", "5">>, <<"1", " ", "2">>, <<"-">>}
Tokens == GoodTokens \cup BlankTokens \cup BadTokens

\* The inputs of the tests (to_bitmask_mixed, to_bitmask_extra_characters,
\* to_bitmask_multiple_single_values) and a list that grows the bit set
\* eight bits at a time up to bit 32.
TestInputs ==
  {Join(<<Str(0), Rng(2, 4), Str(7), Rng(9, 10)>>),
   Join(<<Str(0), <<" ", "2", "-", " ", "4">>, <<>>, <<"7", " ", " ", " ">>,
          <<>>, Rng(9, 10)>>),
   Join(<<Str(0), Str(1), Str(2)>>),
   Join(<<Str(8), Str(16), Str(24), Str(32)>>)}

MixedInputs ==
  {Join(toks) : toks \in UNION {[1..n -> Tokens] : n \in 0..MaxTokens}}

Inputs == SingleInputs \cup RangeInputs \cup MixedInputs \cup TestInputs

\* ------------------------------------------------------------ CpuSet

ALLOWED_CPUS == "AllowedCPUs"
ALLOWED_NODES == "AllowedMemoryNodes"

\* A HashMap is the set of its <<key, value>> entries, one per key.
contains_key(map, k) == \E e \in map : e[1] = k

get(map, k) == (CHOOSE e \in map : e[1] = k)[2]

\* Mutant of insert: an existing entry is kept (entry(k).or_insert(v)).
insert_if_absent(map, k, v) ==
  IF \E e \in map : e[1] = k THEN map ELSE map \cup {<<k, v>>}

\* HashMap::insert(k, v): binds k to v, replacing an earlier value.
insert(map, k, v) == {e \in map : e[1] # k} \cup {<<k, v>>}

\* Option<T>.
None == [some |-> FALSE, val |-> <<>>]
Some(v) == [some |-> TRUE, val |-> v]

\* Mutant of version_too_old: 243 itself passes the gate.
version_too_old_strict(systemd_version) == systemd_version < 243

\* The test of the version gate.
version_too_old(systemd_version) == systemd_version <= 243

\* CpuSet::apply(cpu, systemd_version, properties): the outcome, the context
\* of the error, and the map as the call leaves it.  `?` returns at the
\* first list that does not encode, after the inserts made before it.
CpuSet_apply(cpu, systemd_version, props) ==
  LET cpu_mask == to_bitmask(cpu.cpus.val)
      after_cpus == IF cpu.cpus.some
                    THEN insert(props, ALLOWED_CPUS, cpu_mask.mask)
                    ELSE props
      mems_mask == to_bitmask(cpu.mems.val)
      after_mems == IF cpu.mems.some
                    THEN insert(after_cpus, ALLOWED_NODES, mems_mask.mask)
                    ELSE after_cpus
  IN  IF version_too_old(systemd_version)
      THEN [status |-> "Err", context |-> "version", properties |-> props]
      ELSE IF cpu.cpus.some /\ cpu_mask.status # "Ok"
      THEN [status |-> cpu_mask.status, context |-> "cpus",
            properties |-> props]
      ELSE IF cpu.mems.some /\ mems_mask.status # "Ok"
      THEN [status |-> mems_mask.status, context |-> "mems",
            properties |-> after_cpus]
      ELSE [status |-> "Ok", context |-> "", properties |-> after_mems]

\* <CpuSet as Controller>::apply(options, systemd_version, properties).
Controller_apply(cpu, systemd_version, props) ==
  IF cpu.some
  THEN CpuSet_apply(cpu, systemd_version, props)
  ELSE [status |-> "Ok", context |-> "", properties |-> props]

\* ------------------------------------------------------- inputs of apply

\* The cpus / mems strings of a LinuxCpu: the list of test_cpuset_set, the
\* list of to_bitmask_mixed, a list that names no index, a malformed list
\* and a single index past the first sixteen bits.
ListStrings ==
  {Rng(0, 3), Join(<<Str(0), Rng(2, 4), Str(7), Rng(9, 10)>>),
   <<>>, <<"x">>, Str(16)}

OptLists == {None} \cup {Some(l) : l \in ListStrings}

\* options.resources.cpu(): no cpu section, or one with optional lists.
CpuOptions ==
  {[some |-> FALSE, cpus |-> None, mems |-> None]}
    \cup {[some |-> TRUE, cpus |-> c, mems |-> m] : c \in OptLists,
                                                     m \in OptLists}

\* systemd versions on both sides of the gate (235 and 245: the tests').
Versions == {235, 243, 244, 245}

\* The map the caller hands over: empty, or holding another controller's
\* property.
InitialMaps == {{}, {<<"CPUWeight", <<100>>>>}}

\* ----------------------------------------------------------- state machine

NotCalled == [status |-> "None", mask |-> <<>>]

NoCall ==
  [made |-> FALSE, cpu |-> [some |-> FALSE, cpus |-> None, mems |-> None],
   systemd_version |-> 0, pre |-> {}, status |-> "None", context |-> ""]

\* Before a call of to_bitmask: its argument is any of the inputs.
Init ==
  /\ range \in Inputs
  /\ result = NotCalled
  /\ properties = {}
  /\ call = NoCall

\* The call to_bitmask(range).
ToBitmask ==
  /\ result.status = "None"
  /\ result' = to_bitmask(range)
  /\ UNCHANGED <<range, properties, call>>

Next == ToBitmask

Spec == Init /\ [][Next]_vars

\* Before the first apply on a property map.
InitApply ==
  /\ range = <<>>
  /\ result = NotCalled
  /\ properties \in InitialMaps
  /\ call = NoCall

\* A call apply(options, systemd_version, &mut properties) on the map.
Apply ==
  \E cpu \in CpuOptions, systemd_version \in Versions :
    \E r \in {Controller_apply(cpu, systemd_version, properties)} :
        /\ properties' = r.properties
        /\ call' = [made |-> TRUE, cpu |-> cpu,
                    systemd_version |-> systemd_version, pre |-> properties,
                    status |-> r.status, context |-> r.context]
        /\ UNCHANGED <<range, result>>

NextApply == Apply

SpecApply == InitApply /\ [][NextApply]_vars

\* ------------------------------------------- the grammar of the lists

\* <uint>: one or more decimal digits.
IsUint(s) == s # <<>> /\ \A i \in 1..Len(s) : s[i] \in Digits

\* The trimmed sides of a token, around its '-' signs.
Sides(tok) ==
  LET parts == split(tok, "-") IN [i \in 1..Len(parts) |-> trim(parts[i])]

\* A token <uint>.
IsIndexToken(tok) == Len(Sides(tok)) = 1 /\ IsUint(Sides(tok)[1])

\* A token <uint>-<uint> with start <= end.
IsRangeToken(tok) ==
  /\ Len(Sides(tok)) = 2
  /\ IsUint(Sides(tok)[1])
  /\ IsUint(Sides(tok)[2])
  /\ DecimalValue(Sides(tok)[1]) <= DecimalValue(Sides(tok)[2])

\* The non-empty trimmed tokens of a list.
TokensOf(s) ==
  {trim(split(s, ",")[i]) : i \in 1..Len(split(s, ","))} \ {<<>>}

\* Every token of the list is <uint> or <uint>-<uint> with start <= end.
WellFormed(s) == \A tok \in TokensOf(s) : IsIndexToken(tok) \/ IsRangeToken(tok)

\* The indices a well-formed token, and a well-formed list, denote.
IndicesOf(tok) ==
  IF IsIndexToken(tok) THEN {DecimalValue(Sides(tok)[1])}
  ELSE DecimalValue(Sides(tok)[1])..DecimalValue(Sides(tok)[2])

Denotes(s) == UNION {IndicesOf(tok) : tok \in TokensOf(s)}

\* The positions of the 1 bits of the bytes read as one big-endian unsigned
\* integer (position 0 = least significant bit of the last byte): the
\* integer is the sum of 2^k over these k.
BigEndianBits(bytes) ==
  {k \in 0..(8 * Len(bytes) - 1) :
     (bytes[Len(bytes) - (k \div 8)] \div (2 ^ (k % 8))) % 2 = 1}

Called == result.status # "None"

\* ---------------------------------------------------------------- claims

\* C1: for every well-formed list, to_bitmask never writes a bit at or past
\* the length of the bit set: the call returns Ok and does not panic, on
\* the single-index path (grow by 8) and on the range path alike.
C1_NeverOutOfBounds ==
  (Called /\ WellFormed(range)) => result.status = "Ok"

\* C2: for every single-index list "i", to_bitmask returns bytes with
\* exactly one bit set, whose big-endian value is 2^i.
C2_SingleIndexIsPowerOfTwo ==
  (Called /\ IsUint(range)) =>
    /\ result.status = "Ok"
    /\ BigEndianBits(result.mask) = {DecimalValue(range)}

\* C3: for every list "a-b" with a <= b, to_bitmask returns bytes whose
\* big-endian value is the sum of 2^k for k from a to b.
C3_RangeIsSumOfPowers ==
  (Called /\ TokensOf(range) = {range} /\ IsRangeToken(range)) =>
    /\ result.status = "Ok"
    /\ BigEndianBits(result.mask) = Denotes(range)

\* C5: to_bitmask returns an error for every list with a non-empty token
\* that is neither <uint> nor <uint>-<uint> with start <= end.
C5_MalformedIsError ==
  (Called /\ ~WellFormed(range)) => result.status = "Err"

\* C8: the bytes to_bitmask returns have no leading zero byte, and a list
\* that names no index (empty, blank, separators only) gives Ok with no
\* bytes.
C8_NoLeadingZeroByte ==
  /\ (Called /\ result.status = "Ok") =>
       (result.mask = <<>> \/ result.mask[1] # 0)
  /\ (Called /\ TokensOf(range) = {}) =>
       (result.status = "Ok" /\ result.mask = <<>>)

\* C8 witness: "9" is encoded: the block's bytes 00 00 02 00 lose their two
\* leading zero bytes.
C8_Witness ==
  /\ range = Str(9)
  /\ result = [status |-> "Ok", mask |-> <<2, 0>>]

\* C9: the outcome of to_bitmask depends only on the set of indices the
\* list denotes: any other well-formed list of the same indices (tokens
\* repeated, overlapping, reordered, blanks, empty tokens) has the same
\* outcome.
C9_OutcomeDependsOnlyOnIndices ==
  (Called /\ WellFormed(range)) =>
    \A other \in Inputs :
      (WellFormed(other) /\ Denotes(other) = Denotes(range)) =>
        to_bitmask(other) = result

\* C4: with a cpu section and a systemd version <= 243, apply returns the
\* version error and leaves the property map as it was, whatever the cpus
\* and mems fields hold.
C4_VersionGateFirst ==
  (call.made /\ call.cpu.some /\ call.systemd_version <= 243) =>
    /\ call.status = "Err"
    /\ call.context = "version"
    /\ properties = call.pre

\* C4 witness: apply at version 243 with a valid cpus and a malformed mems
\* list, on a map that already holds AllowedCPUs, has failed on the version.
C4_Witness ==
  /\ call.made
  /\ call.systemd_version = 243
  /\ call.cpu = [some |-> TRUE, cpus |-> Some(Rng(0, 3)),
                 mems |-> Some(<<"x">>)]
  /\ contains_key(call.pre, ALLOWED_CPUS)
  /\ call.status = "Err"

\* The map a successful apply must leave: the prior map with AllowedCPUs
\* bound to the mask of cpus when cpus is present, AllowedMemoryNodes bound
\* to the mask of mems when mems is present, every other key as it was.
ExpectedMap(pre, cpu) ==
  {e \in pre : ~ \/ (e[1] = ALLOWED_CPUS /\ cpu.cpus.some)
                 \/ (e[1] = ALLOWED_NODES /\ cpu.mems.some)}
    \cup {<<ALLOWED_CPUS, to_bitmask(l).mask>> :
            l \in IF cpu.cpus.some THEN {cpu.cpus.val} ELSE {}}
    \cup {<<ALLOWED_NODES, to_bitmask(l).mask>> :
            l \in IF cpu.mems.some THEN {cpu.mems.val} ELSE {}}

\* Every list present in the cpu section encodes.
Encodes(cpu) ==
  /\ cpu.cpus.some => to_bitmask(cpu.cpus.val).status = "Ok"
  /\ cpu.mems.some => to_bitmask(cpu.mems.val).status = "Ok"

C7_NeverRemovedOrEmptied ==
  call.made =>
    \A e \in call.pre :
      /\ contains_key(properties, e[1])
      /\ e[2] # <<>> => get(properties, e[1]) # <<>>

\* C10: an apply that returns an error leaves the property map as it was,
\* also when the error is a list that does not encode.
C10_ErrorLeavesMapUnchanged ==
  (call.made /\ call.status = "Err") => properties = call.pre

====
